---- MODULE Spec2Model ----
(***************************************************************************)
(* The PDF merge-and-compress request handler, POST /api/merge.            *)
(*                                                                         *)
(* Two versions of the handler are in the repository and both are          *)
(* modelled; the variable `variant` says which one serves the request:     *)
(*   "inproc"  src/src/app/api/merge/route.ts  (pdf-lib rewrite only)      *)
(*   "gs"      src/unnamed/part_001            (Ghostscript, with a        *)
(*                                              pdf-lib fallback)          *)
(*                                                                         *)
(* Strings that the code parses or formats are sequences of one-character  *)
(* strings; PDF byte buffers are sequences of tokens, a header token       *)
(* followed by one token per page, so that serializing and loading are     *)
(* real conversions and a buffer has a length.                             *)
(***************************************************************************)
EXTENDS Integers, Sequences, FiniteSets, TLC

\* ------------------------------------------------------------------ bounds
\* Most files in one upload.
MaxFiles == 3
\* Longest compressionLevel field, in characters.
MaxFieldLen == 2

\* ------------------------------------------------------- program constants
ValidationStatus == 400
InternalErrorStatus == 500
OkStatus == 200
MinLevel == 0
MaxLevel == 2
MediumObjectsPerTick == 50
HighObjectsPerTick == 20
OptimizedObjectsPerTick == 10
\* pdf-lib's own default for SaveOptions.objectsPerTick
DefaultObjectsPerTick == 50
\* child_process.exec's timeout when the caller passes no options: none.
ExecTimeoutMs == 0
Radix == 10
\* The radix parseInt switches to on a 0x prefix when it is given none.
HexRadix == 16

\* ---------------------------------------------------------------- strings
Digits == <<"0", "1", "2", "3", "4", "5", "6", "7", "8", "9">>
LowerDigits == Digits \o <<"a", "b", "c", "d", "e", "f">>
UpperDigits == Digits \o <<"A", "B", "C", "D", "E", "F">>
\* White space and line terminators of ECMAScript (StrWhiteSpaceChar): space,
\* tab, line feed, vertical tab, form feed, carriage return, no-break space,
\* U+FEFF, U+1680, and those that a string of this module cannot hold,
\* written by their code points.
Whitespace ==
  {" ", "\t", "\n", "", "\f", "\r", " ", "﻿", " ",
   "U+2000", "U+2001", "U+2002", "U+2003", "U+2004", "U+2005", "U+2006", "U+2007",
   "U+2008", "U+2009", "U+200A", "U+2028", "U+2029", "U+202F", "U+205F", "U+3000"}
\* The characters a compressionLevel field is built from in this model.
FieldChars == {"0", "1", "2", "3", "-", "x"}

\* A digit of the given radix, in either case.
IsDigitIn(c, radix) ==
  \E i \in 1..radix : LowerDigits[i] = c \/ UpperDigits[i] = c
DigitValueIn(c, radix) ==
  (CHOOSE i \in 1..radix : LowerDigits[i] = c \/ UpperDigits[i] = c) - 1

\* A JavaScript number as far as the handler needs it: an integer or NaN.
Num(v) == [nan |-> FALSE, val |-> v]
NaN == [nan |-> TRUE, val |-> 0]

\* Comparisons and strict equality of JavaScript: all false on NaN.
JsLess(a, n) == ~a.nan /\ a.val < n
JsGreater(a, n) == ~a.nan /\ a.val > n
JsStrictEq(a, n) == ~a.nan /\ a.val = n

RECURSIVE SkipWhitespace(_)
SkipWhitespace(s) ==
  IF Len(s) > 0 /\ Head(s) \in Whitespace THEN SkipWhitespace(Tail(s)) ELSE s

\* The value of the longest prefix of digits of the radix of s, after acc.
RECURSIVE DigitsPrefixValue(_, _, _)
DigitsPrefixValue(s, radix, acc) ==
  IF Len(s) > 0 /\ IsDigitIn(Head(s), radix)
    THEN DigitsPrefixValue(Tail(s), radix, acc * radix + DigitValueIn(Head(s), radix))
    ELSE acc

\* The string starts with 0x or 0X.
HasHexPrefix(s) == Len(s) > 1 /\ s[1] = "0" /\ s[2] \in {"x", "X"}

\* parseInt(string) without a radix: leading whitespace is skipped, an
\* optional sign is read, a 0x or 0X prefix is dropped and makes the radix
\* 16, otherwise the radix is 10; then comes the longest prefix of digits of
\* that radix; with no digit the result is NaN.
ParseInt(str) ==
  LET s == SkipWhitespace(str)
      signed == Len(s) > 0 /\ Head(s) \in {"-", "+"}
      neg == Len(s) > 0 /\ Head(s) = "-"
      unsigned == IF signed THEN Tail(s) ELSE s
      radix == IF HasHexPrefix(unsigned) THEN HexRadix ELSE Radix
      body == IF HasHexPrefix(unsigned) THEN Tail(Tail(unsigned)) ELSE unsigned
  IN  IF Len(body) = 0 \/ ~IsDigitIn(Head(body), radix)
        THEN NaN
        ELSE Num((IF neg THEN -1 ELSE 1) * DigitsPrefixValue(body, radix, 0))

\* Number.prototype.toString() of a non-negative integer.
RECURSIVE NatToString(_)
NatToString(n) ==
  IF n < Radix THEN <<Digits[n + 1]>>
  ELSE NatToString(n \div Radix) \o <<Digits[(n % Radix) + 1]>>

NumberToString(a) ==
  IF a.nan THEN <<"N", "a", "N">>
  ELSE IF a.val < 0 THEN <<"-">> \o NatToString(-a.val)
  ELSE NatToString(a.val)

\* A form field that is absent: formData.get returns null.
AbsentField == [present |-> FALSE, text |-> <<>>]
TextField(s) == [present |-> TRUE, text |-> s]

\* formData.get("compressionLevel") as string || "0": null and the empty
\* string are falsy and give "0".
FieldOrDefault(f) ==
  IF ~f.present \/ Len(f.text) = 0 THEN <<"0">> ELSE f.text

ParseLevel(f) == ParseInt(FieldOrDefault(f))

\* ------------------------------------------------- the PDF library (pdf-lib)
\* Document metadata. PDFDocument.create() stamps the dates of the call and
\* leaves the descriptive fields unset.
CreatedMeta ==
  [title |-> "", author |-> "", subject |-> "", keywords |-> "",
   created |-> "now", modified |-> "now"]
\* The values the High branch of route.ts sets.
PipelineMeta ==
  [title |-> "Merged PDF", author |-> "PDF Merger",
   subject |-> "Merged Documents", keywords |-> "merged,pdf",
   created |-> "now", modified |-> "now"]
\* What an uploaded document carries.
SourceMeta(name) ==
  [title |-> name, author |-> "uploader", subject |-> "", keywords |-> "",
   created |-> "earlier", modified |-> "earlier"]

\* The page pdf-lib adds to a page-less document on save.
BlankPage == "blank"

HeaderToken(producer, objStreams, meta) ==
  [t |-> "hdr", producer |-> producer, objStreams |-> objStreams, meta |-> meta]
PageToken(id) == [t |-> "page", id |-> id]
JunkToken == [t |-> "junk"]

PageTokens(pages) == [i \in 1..Len(pages) |-> PageToken(pages[i])]

\* A byte buffer parses as a PDF when it starts with a header.
Parses(bytes) == Len(bytes) > 0 /\ bytes[1].t = "hdr"

\* The page ids a PDF buffer holds, in order.
PagesOf(bytes) ==
  IF Parses(bytes) THEN [i \in 1..(Len(bytes) - 1) |-> bytes[i + 1].id] ELSE <<>>

\* A load that swallows the parse error: the file is skipped.
LoadNeverThrows(bytes) == FALSE

\* PDFDocument.load rejects a buffer that does not parse.
LoadThrows(bytes) == ~Parses(bytes)

\* PDFDocument.load(bytes): the document model of a buffer; loading stamps the
\* modification date (updateMetadata defaults to true).
LoadDocument(bytes) ==
  IF Parses(bytes)
    THEN [pages |-> PagesOf(bytes), meta |-> [bytes[1].meta EXCEPT !.modified = "now"]]
    ELSE [pages |-> <<>>, meta |-> CreatedMeta]

\* PDFDocument.create()
CreateDocument == [pages |-> <<>>, meta |-> CreatedMeta]

\* mergedPdf before PDFDocument.create() has run.
NoDocument ==
  [pages |-> <<>>,
   meta |-> [title |-> "", author |-> "", subject |-> "", keywords |-> "",
             created |-> "", modified |-> ""]]

\* mergedPdf.copyPages(pdf, pdf.getPageIndices()) and addPage of each copy.
CopyAllPages(target, source) == [target EXCEPT !.pages = @ \o source.pages]

\* SaveOptions: an option the caller leaves out takes the library's default.
DefaultSaveOptions ==
  [useObjectStreams |-> TRUE, addDefaultPage |-> TRUE,
   objectsPerTick |-> DefaultObjectsPerTick]
NoOptions == [x \in {} |-> TRUE]
SaveOption(opts, key) ==
  IF key \in DOMAIN opts THEN opts[key] ELSE DefaultSaveOptions[key]

\* save() first adds a blank page to a document without pages, unless
\* addDefaultPage is false; the document keeps that page afterwards.
DocumentAfterSave(doc, opts) ==
  IF SaveOption(opts, "addDefaultPage") /\ Len(doc.pages) = 0
    THEN [doc EXCEPT !.pages = <<BlankPage>>]
    ELSE doc

\* The bytes the writer emits: objectsPerTick only paces the writer and
\* leaves no trace in the output.
Serialize(doc, objStreams) ==
  <<HeaderToken("pdf-lib", objStreams, doc.meta)>> \o PageTokens(doc.pages)

SaveBytes(doc, opts) ==
  Serialize(DocumentAfterSave(doc, opts), SaveOption(opts, "useObjectStreams"))

\* ----------------------------------------- the external compressor (gs)
\* The command line the switch builds: the -dPDFSETTINGS preset for level 1
\* and for level 2, and the empty string it starts from for any other value.
GsCommand(lvl) ==
  IF JsStrictEq(lvl, 1) THEN "/ebook"
  ELSE IF JsStrictEq(lvl, 2) THEN "/screen"
  ELSE ""

\* A compressor that drops the pages.
GsOutputWithoutPages(bytes, preset) == <<HeaderToken(preset, FALSE, bytes[1].meta)>>

\* The file Ghostscript writes for an input: pdfwrite at compatibility level
\* 1.4 (no object streams), the pages of the input in order.
GsOutput(bytes, preset) ==
  <<HeaderToken(preset, FALSE, bytes[1].meta)>> \o PageTokens(PagesOf(bytes))

\* What a run that fails midway may leave behind: a truncated file.
GsPartialOutput(bytes, preset) == SubSeq(GsOutput(bytes, preset), 1, 1)

\* An exec whose exit code is not looked at.
ExecNeverRejects(exitCode) == FALSE

\* execAsync rejects when the child exits with a nonzero code.
ExecRejects(exitCode) == exitCode # 0

\* ------------------------------------------------------------ the request
\* The documents a user may upload: two pages, one page, no page, not a PDF.
PdfA == <<HeaderToken("src", FALSE, SourceMeta("A")), PageToken("A1"), PageToken("A2")>>
PdfB == <<HeaderToken("src", TRUE, SourceMeta("B")), PageToken("B1")>>
PdfEmpty == <<HeaderToken("src", FALSE, SourceMeta("Z"))>>
NotAPdf == <<JunkToken>>
Uploads == {PdfA, PdfB, PdfEmpty, NotAPdf}

SeqsUpTo(S, n) == UNION {[1..k -> S] : k \in 0..n}

FileLists == SeqsUpTo(Uploads, MaxFiles)
LevelFields == {AbsentField} \cup {TextField(s) : s \in SeqsUpTo(FieldChars, MaxFieldLen)}

Variants == {"inproc", "gs"}

\* The directory mkdtemp creates under os.tmpdir().
TempDirNames == {"pdf-compress-1"}
NoDir == "null"

VARIABLES
  variant,      \* which version of the handler serves the request
  files,        \* formData.getAll("files"), in upload order
  levelField,   \* formData.get("compressionLevel")
  pc,           \* the await the handler is at
  mergedPdf,    \* the accumulator document
  nextFile,     \* index of the next file the merge loop takes
  mergedBytes,  \* the default serialization kept by part_001
  tempDir,      \* part_001's tempDir
  response,     \* the response the handler returns
  calls,        \* every call on the PDF library, the file system and the shell
  diskDirs,     \* temp directories on disk
  diskFiles,    \* files on disk: records [dir, name, data]
  reqs,         \* requests served at the same time: id -> the handler's locals
  pageFiles,    \* the page (part_000): files
  mergedUrl,    \* the page (part_000): mergedUrl
  isMerging,    \* the page (part_000): isMerging
  pageLevel,    \* the page (part_000): compressionLevel
  inFlight      \* the page (part_000): the fetches handleMerge calls wait for

vars ==
  <<variant, files, levelField, pc, mergedPdf, nextFile, mergedBytes, tempDir,
    response, calls, diskDirs, diskFiles>>

\* The state of the page (the browser side).
pageVars == <<pageFiles, mergedUrl, isMerging, pageLevel, inFlight>>

\* What a behaviour of one request alone never touches.
aloneIdle == <<reqs, pageVars>>

\* No other request is being served.
NoRequests == <<>>
\* The page as it is before anything is uploaded.
NoUrl == [files |-> <<>>, level |-> 0, set |-> FALSE]
NoFetch == <<>>
PageInit ==
  /\ pageFiles = <<>>
  /\ mergedUrl = NoUrl
  /\ isMerging = FALSE
  /\ pageLevel = 0
  /\ inFlight = NoFetch

\* const compressionLevel = parseInt(... || "0")
compressionLevel == ParseLevel(levelField)

Call(op, arg, ok) == [op |-> op, arg |-> arg, ok |-> ok]

NoHeaders == [x \in {} |-> ""]
NoResponse ==
  [status |-> 0, kind |-> "none", body |-> <<>>, error |-> "", details |-> "",
   headers |-> NoHeaders]

\* NextResponse.json({error, details}, {status})
JsonResponse(error, details, status) ==
  [status |-> status, kind |-> "json", body |-> <<>>, error |-> error,
   details |-> details, headers |-> ("Content-Type" :> "application/json")]

\* new NextResponse(buffer, {status: 200, headers})
PdfResponse(bytes, headers) ==
  [status |-> OkStatus, kind |-> "pdf", body |-> bytes, error |-> "",
   details |-> "", headers |-> headers]

\* The catch block of each version.
CatchMessage(v) == IF v = "inproc" THEN "Failed to merge PDFs" ELSE "Failed to process PDFs"
\* A catch block that answers with the status of the validations.
CatchResponseAsValidation(v, details) ==
  JsonResponse(CatchMessage(v), details, ValidationStatus)
CatchResponse(v, details) == JsonResponse(CatchMessage(v), details, InternalErrorStatus)

\* A handler without the file-count validation.
NoFilesUnchecked(fs) == FALSE

\* if (!files || files.length === 0)
NoFiles(fs) == Len(fs) = 0

\* if (compressionLevel < 0 || compressionLevel > 2)
InvalidLevel(lvl) == JsLess(lvl, MinLevel) \/ JsGreater(lvl, MaxLevel)

\* A finally block that removes nothing.
NeedsCleanupNever(dir) == FALSE

\* finally { if (tempDir) await fs.rm(...) }: with no temp directory the
\* handler is finished as soon as its response is determined.
NeedsCleanup(dir) == dir # NoDir
AfterResponse(dir) == IF NeedsCleanup(dir) THEN "finally" ELSE "done"

Init ==
  /\ variant \in Variants
  /\ files \in FileLists
  /\ levelField \in LevelFields
  /\ pc = "start"
  /\ mergedPdf = NoDocument
  /\ nextFile = 1
  /\ mergedBytes = <<>>
  /\ tempDir = NoDir
  /\ response = NoResponse
  /\ calls = <<>>
  /\ diskDirs = {}
  /\ diskFiles = {}
  /\ reqs = NoRequests
  /\ PageInit

\* Reading the form and the two validations.
Validate ==
  /\ pc = "start"
  /\ IF NoFiles(files)
       THEN /\ response' = JsonResponse("No PDF files uploaded.", "", ValidationStatus)
            /\ pc' = "done"
     ELSE IF InvalidLevel(compressionLevel)
       THEN /\ response' = JsonResponse("Invalid compression level.", "", ValidationStatus)
            /\ pc' = "done"
     ELSE /\ pc' = "create"
          /\ UNCHANGED response
  /\ UNCHANGED <<variant, files, levelField, mergedPdf, nextFile, mergedBytes,
                 tempDir, calls, diskDirs, diskFiles>>
  /\ UNCHANGED aloneIdle

\* PDFDocument.create()
CreateMerged ==
  /\ pc = "create"
  /\ calls' = Append(calls, Call("create", "", TRUE))
  /\ mergedPdf' = CreateDocument
  /\ pc' = IF Len(files) = 0 THEN "save" ELSE "merge"
  /\ UNCHANGED <<variant, files, levelField, nextFile, mergedBytes, tempDir,
                 response, diskDirs, diskFiles>>
  /\ UNCHANGED aloneIdle

\* One turn of the merge loop up to the end of PDFDocument.load: the file is
\* read and parsed; a file that does not parse throws into the catch block.
LoadFile ==
  /\ pc = "merge"
  /\ nextFile <= Len(files)
  /\ IF LoadThrows(files[nextFile])
       THEN /\ calls' = Append(calls, Call("load", "", FALSE))
            /\ response' = CatchResponse(variant, "Failed to parse PDF document")
            /\ pc' = AfterResponse(tempDir)
       ELSE /\ calls' = Append(calls, Call("load", "", TRUE))
            /\ pc' = "copy"
            /\ UNCHANGED response
  /\ UNCHANGED <<variant, files, levelField, mergedPdf, nextFile, mergedBytes,
                 tempDir, diskDirs, diskFiles>>
  /\ UNCHANGED aloneIdle

\* The rest of the turn: copyPages, then every copied page is added.
CopyPages ==
  /\ pc = "copy"
  /\ calls' = Append(calls, Call("copyPages", "", TRUE))
  /\ mergedPdf' = CopyAllPages(mergedPdf, LoadDocument(files[nextFile]))
  /\ nextFile' = nextFile + 1
  /\ pc' = IF nextFile = Len(files) THEN "save" ELSE "merge"
  /\ UNCHANGED <<variant, files, levelField, mergedBytes, tempDir, response,
                 diskDirs, diskFiles>>
  /\ UNCHANGED aloneIdle

\* ----------------------------------------------- route.ts: rewrite in process
MediumSaveOptions ==
  [useObjectStreams |-> TRUE, addDefaultPage |-> FALSE,
   objectsPerTick |-> MediumObjectsPerTick]
HighSaveOptions ==
  [useObjectStreams |-> TRUE, addDefaultPage |-> FALSE,
   objectsPerTick |-> HighObjectsPerTick]
OptimizedSaveOptions ==
  [useObjectStreams |-> TRUE, objectsPerTick |-> OptimizedObjectsPerTick]

\* A High branch that reloads but sets no metadata.
OptimizedDocumentKeepingMeta(doc) == LoadDocument(SaveBytes(doc, HighSaveOptions))

\* The High branch reloads what it saved and sets the six metadata fields.
OptimizedDocument(doc) ==
  [LoadDocument(SaveBytes(doc, HighSaveOptions)) EXCEPT !.meta = PipelineMeta]

\* mergedBytes of route.ts, by the three-way branch on compressionLevel.
InProcessBytes(doc, lvl) ==
  IF JsStrictEq(lvl, 0) THEN SaveBytes(doc, NoOptions)
  ELSE IF JsStrictEq(lvl, 1) THEN SaveBytes(doc, MediumSaveOptions)
  ELSE SaveBytes(OptimizedDocument(doc), OptimizedSaveOptions)

\* The library calls that branch makes, in order.
InProcessCalls(lvl) ==
  IF JsStrictEq(lvl, 0) THEN <<Call("save", NoOptions, TRUE)>>
  ELSE IF JsStrictEq(lvl, 1) THEN <<Call("save", MediumSaveOptions, TRUE)>>
  ELSE <<Call("save", HighSaveOptions, TRUE), Call("load", "", TRUE),
         Call("setMetadata", "", TRUE), Call("save", OptimizedSaveOptions, TRUE)>>

\* mergedPdf itself after the branch: only a save that may add the default
\* page changes it.
InProcessMerged(doc, lvl) ==
  IF JsStrictEq(lvl, 0) THEN DocumentAfterSave(doc, NoOptions) ELSE doc

PlainDisposition == "attachment; filename=\"merged.pdf\""
CompressedDisposition == "attachment; filename=\"merged_compressed.pdf\""

\* A length header that counts the pages instead of the bytes.
ContentLengthOfPages(bytes) == NumberToString(Num(Len(PagesOf(bytes))))

\* nodeBuffer.length.toString()
ContentLength(bytes) == NumberToString(Num(Len(bytes)))

InProcessHeaders(bytes, lvl) ==
  "Content-Type" :> "application/pdf"
  @@ "Content-Disposition" :>
       (IF JsGreater(lvl, 0) THEN CompressedDisposition ELSE PlainDisposition)
  @@ "Content-Length" :> ContentLength(bytes)
  @@ "X-Compression-Level" :> NumberToString(lvl)

\* The branch that is neither level 0 nor level 1.
TakesHighBranch(lvl) == ~JsStrictEq(lvl, 0) /\ ~JsStrictEq(lvl, 1)

\* route.ts after the merge loop: the save of the branch the level selects.
\* Levels 0 and 1 respond with what it returns; the High branch goes on.
SaveInProcess ==
  /\ pc = "save"
  /\ variant = "inproc"
  /\ IF TakesHighBranch(compressionLevel)
       THEN /\ mergedBytes' = SaveBytes(mergedPdf, HighSaveOptions)
            /\ calls' = Append(calls, Call("save", HighSaveOptions, TRUE))
            /\ mergedPdf' = DocumentAfterSave(mergedPdf, HighSaveOptions)
            /\ pc' = "reload"
            /\ UNCHANGED response
       ELSE LET bytes == InProcessBytes(mergedPdf, compressionLevel)
            IN  /\ mergedBytes' = bytes
                /\ response' = PdfResponse(bytes, InProcessHeaders(bytes, compressionLevel))
                /\ calls' = calls \o InProcessCalls(compressionLevel)
                /\ mergedPdf' = InProcessMerged(mergedPdf, compressionLevel)
                /\ pc' = "done"
  /\ UNCHANGED <<variant, files, levelField, nextFile, tempDir, diskDirs, diskFiles>>
  /\ UNCHANGED aloneIdle

\* High branch: PDFDocument.load of the saved bytes and the six setters.
ReloadOptimized ==
  /\ pc = "reload"
  /\ calls' = calls \o <<Call("load", "", TRUE), Call("setMetadata", "", TRUE)>>
  /\ pc' = "resave"
  /\ UNCHANGED <<variant, files, levelField, mergedPdf, nextFile, mergedBytes,
                 tempDir, response, diskDirs, diskFiles>>
  /\ UNCHANGED aloneIdle

\* High branch: optimizedPdf.save and the response.
SaveOptimized ==
  /\ pc = "resave"
  /\ LET bytes == SaveBytes(OptimizedDocument(mergedPdf), OptimizedSaveOptions)
     IN  /\ mergedBytes' = bytes
         /\ response' = PdfResponse(bytes, InProcessHeaders(bytes, compressionLevel))
  /\ calls' = Append(calls, Call("save", OptimizedSaveOptions, TRUE))
  /\ pc' = "done"
  /\ UNCHANGED <<variant, files, levelField, mergedPdf, nextFile, tempDir,
                 diskDirs, diskFiles>>
  /\ UNCHANGED aloneIdle

\* -------------------------------------------- part_001: Ghostscript version
\* A handler without the early return for level 0.
ReturnsUncompressedNever(lvl) == FALSE

\* if (compressionLevel === 0) return the merged bytes at once
ReturnsUncompressed(lvl) == JsStrictEq(lvl, 0)

PlainHeaders(bytes) ==
  "Content-Type" :> "application/pdf"
  @@ "Content-Disposition" :> PlainDisposition
  @@ "Content-Length" :> ContentLength(bytes)

\* part_001 after the merge loop: the default save, and the early return.
SaveMerged ==
  /\ pc = "save"
  /\ variant = "gs"
  /\ LET bytes == SaveBytes(mergedPdf, NoOptions)
     IN  /\ mergedBytes' = bytes
         /\ IF ReturnsUncompressed(compressionLevel)
              THEN /\ response' = PdfResponse(bytes, PlainHeaders(bytes))
                   /\ pc' = AfterResponse(tempDir)
              ELSE /\ pc' = "mkdtemp"
                   /\ UNCHANGED response
  /\ mergedPdf' = DocumentAfterSave(mergedPdf, NoOptions)
  /\ calls' = Append(calls, Call("save", NoOptions, TRUE))
  /\ UNCHANGED <<variant, files, levelField, nextFile, tempDir, diskDirs, diskFiles>>
  /\ UNCHANGED aloneIdle

\* A directory made under a name that may be in use already.
AnyDirNames(names, existing) == names

\* fs.mkdtemp appends random characters until the name is new: the
\* directory it makes never exists beforehand.
FreshDirNames(names, existing) == names \ existing

\* fs.mkdtemp: a new directory, or an error.
MakeTempDir ==
  /\ pc = "mkdtemp"
  /\ \E ok \in BOOLEAN : \E d \in FreshDirNames(TempDirNames, diskDirs) :
       /\ calls' = Append(calls, Call("mkdtemp", d, ok))
       /\ IF ok
            THEN /\ tempDir' = d
                 /\ diskDirs' = diskDirs \cup {d}
                 /\ pc' = "write"
                 /\ UNCHANGED response
            ELSE /\ response' = CatchResponse(variant, "mkdtemp failed")
                 /\ pc' = AfterResponse(tempDir)
                 /\ UNCHANGED <<tempDir, diskDirs>>
  /\ UNCHANGED <<variant, files, levelField, mergedPdf, nextFile, mergedBytes, diskFiles>>
  /\ UNCHANGED aloneIdle

DiskFile(dir, name, data) == [dir |-> dir, name |-> name, data |-> data]
FileExists(disk, dir, name) == \E f \in disk : f.dir = dir /\ f.name = name
FileData(disk, dir, name) == (CHOOSE f \in disk : f.dir = dir /\ f.name = name).data

\* writeFile creates the file or replaces the one at that path.
WriteFile(disk, dir, name, data) ==
  {f \in disk : ~(f.dir = dir /\ f.name = name)} \cup {DiskFile(dir, name, data)}

\* What a writeFile that rejects may leave: nothing, or the file with a
\* proper prefix of the data (it is created, then written piece by piece).
FailedWriteLeaves(disk, dir, name, data) ==
  {disk} \cup {WriteFile(disk, dir, name, SubSeq(data, 1, k)) : k \in 0..(Len(data) - 1)}

\* fs.writeFile(tempInputPath, mergedBytes)
WriteInput ==
  /\ pc = "write"
  /\ \E ok \in BOOLEAN :
       /\ calls' = Append(calls, Call("writeFile", "input.pdf", ok))
       /\ IF ok
            THEN /\ diskFiles' = WriteFile(diskFiles, tempDir, "input.pdf", mergedBytes)
                 /\ pc' = "probe"
                 /\ UNCHANGED response
            ELSE /\ diskFiles' \in FailedWriteLeaves(diskFiles, tempDir, "input.pdf",
                                                     mergedBytes)
                 /\ response' = CatchResponse(variant, "writeFile failed")
                 /\ pc' = AfterResponse(tempDir)
  /\ UNCHANGED <<variant, files, levelField, mergedPdf, nextFile, mergedBytes,
                 tempDir, diskDirs>>
  /\ UNCHANGED aloneIdle

\* A handler that runs the compressor whatever the probe said.
UseFallbackNever(gsAvailable) == FALSE

\* if (!gsAvailable)
UseFallback(gsAvailable) == ~gsAvailable

\* A fallback that saves with the Medium batch size at every level.
FallbackSaveOptionsAlwaysMedium(lvl) ==
  [useObjectStreams |-> TRUE, objectsPerTick |-> MediumObjectsPerTick]

\* const saveOptions = compressionLevel === 1 ? {...50} : {...20}
FallbackSaveOptions(lvl) ==
  IF JsStrictEq(lvl, 1)
    THEN [useObjectStreams |-> TRUE, objectsPerTick |-> MediumObjectsPerTick]
    ELSE [useObjectStreams |-> TRUE, objectsPerTick |-> HighObjectsPerTick]

FallbackHeaders(bytes) ==
  "Content-Type" :> "application/pdf"
  @@ "Content-Disposition" :> CompressedDisposition
  @@ "Content-Length" :> ContentLength(bytes)

\* isGhostscriptAvailable(): `gs --version` exits with 0 or not.
Probe ==
  /\ pc = "probe"
  /\ \E gsAvailable \in BOOLEAN :
       /\ calls' = Append(calls, Call("probe", "gs --version", gsAvailable))
       /\ pc' = IF UseFallback(gsAvailable) THEN "fallback" ELSE "exec"
  /\ UNCHANGED <<variant, files, levelField, mergedPdf, nextFile, mergedBytes,
                 tempDir, response, diskDirs, diskFiles>>
  /\ UNCHANGED aloneIdle

\* The pdf-lib fallback: one save of mergedPdf and the response.
FallbackSave ==
  /\ pc = "fallback"
  /\ LET opts == FallbackSaveOptions(compressionLevel)
         bytes == SaveBytes(mergedPdf, opts)
     IN  /\ calls' = Append(calls, Call("save", opts, TRUE))
         /\ mergedPdf' = DocumentAfterSave(mergedPdf, opts)
         /\ response' = PdfResponse(bytes, FallbackHeaders(bytes))
  /\ pc' = AfterResponse(tempDir)
  /\ UNCHANGED <<variant, files, levelField, nextFile, mergedBytes, tempDir,
                 diskDirs, diskFiles>>
  /\ UNCHANGED aloneIdle

\* The exit codes of the child process the model distinguishes.
GsExitCodes == {0, 1}

GsHeaders(bytes, lvl) ==
  "Content-Type" :> "application/pdf"
  @@ "Content-Disposition" :> CompressedDisposition
  @@ "Content-Length" :> ContentLength(bytes)
  @@ "X-Compression-Method" :> "ghostscript"
  @@ "X-Compression-Level" :> NumberToString(lvl)

\* await execAsync(gsCommand). An empty command is refused by child_process
\* before any process starts. Otherwise Ghostscript runs on the input file:
\* it exits with a code and has or has not written the output file.
RunGhostscript ==
  /\ pc = "exec"
  /\ LET cmd == GsCommand(compressionLevel)
     IN  IF cmd = ""
           THEN /\ calls' = Append(calls, Call("exec", cmd, FALSE))
                /\ response' = CatchResponse(variant, "exec: empty command")
                /\ pc' = AfterResponse(tempDir)
                /\ UNCHANGED diskFiles
           ELSE \E exitCode \in GsExitCodes : \E wrote \in BOOLEAN :
                  LET input == FileData(diskFiles, tempDir, "input.pdf")
                      data == IF exitCode = 0 THEN GsOutput(input, cmd)
                              ELSE GsPartialOutput(input, cmd)
                  IN  /\ calls' = Append(calls, Call("exec", cmd, exitCode = 0))
                      /\ diskFiles' =
                           IF wrote
                             THEN WriteFile(diskFiles, tempDir, "output.pdf", data)
                             ELSE diskFiles
                      /\ IF ExecRejects(exitCode)
                           THEN /\ response' = CatchResponse(variant, "Command failed")
                                /\ pc' = AfterResponse(tempDir)
                           ELSE /\ pc' = "read"
                                /\ UNCHANGED response
  /\ UNCHANGED <<variant, files, levelField, mergedPdf, nextFile, mergedBytes,
                 tempDir, diskDirs>>
  /\ UNCHANGED aloneIdle

\* fs.readFile(tempOutputPath) and the success response; a missing file throws.
ReadOutput ==
  /\ pc = "read"
  /\ IF FileExists(diskFiles, tempDir, "output.pdf")
       THEN LET bytes == FileData(diskFiles, tempDir, "output.pdf")
            IN  /\ calls' = Append(calls, Call("readFile", "output.pdf", TRUE))
                /\ response' = PdfResponse(bytes, GsHeaders(bytes, compressionLevel))
       ELSE /\ calls' = Append(calls, Call("readFile", "output.pdf", FALSE))
            /\ response' = CatchResponse(variant, "ENOENT: no such file")
  /\ pc' = AfterResponse(tempDir)
  /\ UNCHANGED <<variant, files, levelField, mergedPdf, nextFile, mergedBytes,
                 tempDir, diskDirs, diskFiles>>
  /\ UNCHANGED aloneIdle

\* A cleanup whose failure replaces the response by the catch block's.
ResponseSurfacingCleanup(resp, rmOk) ==
  IF rmOk THEN resp
  ELSE JsonResponse("Failed to process PDFs", "Cleanup error", InternalErrorStatus)

\* try { await fs.rm(...) } catch (cleanupError) { console.warn(...) }: the
\* handler returns the response it had, whether or not the removal worked.
ResponseAfterCleanup(resp, rmOk) == resp

\* execAsync is called without a timeout, so nothing ends a child that
\* never exits.
CutsOffHungChild == ExecTimeoutMs > 0

\* The child started by execAsync never exits: `gs --version` of the probe,
\* or the compressor. With a timeout the call would reject into the catch
\* block; without one the await never settles.
ChildHangs ==
  /\ \/ pc = "probe"
     \/ pc = "exec" /\ GsCommand(compressionLevel) # ""
  /\ calls' = Append(calls,
       IF pc = "probe" THEN Call("probe-hang", "gs --version", FALSE)
       ELSE Call("exec-hang", GsCommand(compressionLevel), FALSE))
  /\ IF CutsOffHungChild
       THEN /\ response' = CatchResponse(variant, "Command timed out")
            /\ pc' = AfterResponse(tempDir)
       ELSE /\ pc' = "hung"
            /\ UNCHANGED response
  /\ UNCHANGED <<variant, files, levelField, mergedPdf, nextFile, mergedBytes,
                 tempDir, diskDirs, diskFiles>>
  /\ UNCHANGED aloneIdle

\* What a recursive rm that rejects may leave: the directory, with any of
\* the files it held (it removes entry by entry until one fails).
FailedRmLeaves(disk, dir) ==
  LET own == {f \in disk : f.dir = dir}
  IN  {(disk \ own) \cup kept : kept \in SUBSET own}

\* finally: fs.rm(tempDir, {recursive, force}); a failure is logged and the
\* response already determined is returned.
Cleanup ==
  /\ pc = "finally"
  /\ \E ok \in BOOLEAN :
       /\ calls' = Append(calls, Call("rm", tempDir, ok))
       /\ IF ok
            THEN /\ diskDirs' = diskDirs \ {tempDir}
                 /\ diskFiles' = {f \in diskFiles : f.dir # tempDir}
            ELSE /\ diskFiles' \in FailedRmLeaves(diskFiles, tempDir)
                 /\ UNCHANGED diskDirs
       /\ response' = ResponseAfterCleanup(response, ok)
  /\ pc' = "done"
  /\ UNCHANGED <<variant, files, levelField, mergedPdf, nextFile, mergedBytes,
                 tempDir>>
  /\ UNCHANGED aloneIdle

Next ==
  \/ Validate
  \/ CreateMerged
  \/ LoadFile
  \/ CopyPages
  \/ SaveInProcess
  \/ ReloadOptimized
  \/ SaveOptimized
  \/ SaveMerged
  \/ MakeTempDir
  \/ WriteInput
  \/ Probe
  \/ FallbackSave
  \/ RunGhostscript
  \/ ReadOutput
  \/ ChildHangs
  \/ Cleanup

Spec == Init /\ [][Next]_vars

\* ------------------------------ two requests served at the same time
\* The handler is an async function: between two awaits of one request the
\* steps of another may run, so each action below is the code from one
\* await to the next. The requests share nothing but the file system.
ReqIds == {1, 2}

\* Most files in an upload of these requests.
MaxPairFiles == 1
\* Two documents that differ, and a file that does not parse.
PairUploads == {PdfA, PdfB, NotAPdf}
PairFileLists == SeqsUpTo(PairUploads, MaxPairFiles)
PairLevelFields == {AbsentField, TextField(<<"1">>), TextField(<<"2">>)}

\* Names mkdtemp can come up with.
SharedDirNames == {"pdf-compress-1", "pdf-compress-2"}

\* What the file system and the child processes did to a request, as far as
\* the request has got.
NoOutcomes ==
  [mkdtemp |-> TRUE, writeFile |-> TRUE, gsAvailable |-> TRUE, exitCode |-> 0,
   wrote |-> TRUE]

NewRequest(fs, field) ==
  [files |-> fs, levelField |-> field, pc |-> "start", mergedPdf |-> NoDocument,
   nextFile |-> 1, mergedBytes |-> <<>>, tempDir |-> NoDir,
   response |-> NoResponse, outcomes |-> NoOutcomes]

\* The merge loop run to its end on files that all parse.
RECURSIVE MergeInto(_, _)
MergeInto(doc, fs) ==
  IF Len(fs) = 0 THEN doc
  ELSE MergeInto(CopyAllPages(doc, LoadDocument(Head(fs))), Tail(fs))

AnyLoadThrows(fs) == \E i \in 1..Len(fs) : LoadThrows(fs[i])

\* The variables only a behaviour of one request alone uses.
pairIdle ==
  <<files, levelField, pc, mergedPdf, nextFile, mergedBytes, tempDir, response,
    calls, pageVars>>

PairInit ==
  /\ variant \in Variants
  /\ reqs \in [ReqIds -> {NewRequest(fs, f) : fs \in PairFileLists, f \in PairLevelFields}]
  /\ diskDirs = {}
  /\ diskFiles = {}
  /\ files = <<>>
  /\ levelField = AbsentField
  /\ pc = "start"
  /\ mergedPdf = NoDocument
  /\ nextFile = 1
  /\ mergedBytes = <<>>
  /\ tempDir = NoDir
  /\ response = NoResponse
  /\ calls = <<>>
  /\ PageInit

\* Request r answers and returns without a finally block to run.
Responds(r, resp) == [reqs EXCEPT ![r].response = resp, ![r].pc = "done"]

\* Reading the form and the two validations.
ReqValidate(r) ==
  LET q == reqs[r]
  IN  /\ q.pc = "start"
      /\ reqs' =
           IF NoFiles(q.files)
             THEN Responds(r, JsonResponse("No PDF files uploaded.", "", ValidationStatus))
           ELSE IF InvalidLevel(ParseLevel(q.levelField))
             THEN Responds(r, JsonResponse("Invalid compression level.", "",
                                           ValidationStatus))
           ELSE [reqs EXCEPT ![r].pc = "create"]
      /\ UNCHANGED <<variant, diskDirs, diskFiles, pairIdle>>

\* PDFDocument.create()
ReqCreateMerged(r) ==
  /\ reqs[r].pc = "create"
  /\ reqs' = [reqs EXCEPT ![r].mergedPdf = CreateDocument,
                          ![r].pc = IF Len(reqs[r].files) = 0 THEN "save" ELSE "merge"]
  /\ UNCHANGED <<variant, diskDirs, diskFiles, pairIdle>>

\* The catch block of request r, then its finally block if it has a directory.
Thrown(r, details) ==
  [reqs EXCEPT ![r].response = CatchResponse(variant, details),
               ![r].pc = AfterResponse(reqs[r].tempDir)]

\* One turn of the merge loop up to the end of PDFDocument.load.
ReqLoadFile(r) ==
  LET q == reqs[r]
  IN  /\ q.pc = "merge"
      /\ reqs' = IF LoadThrows(q.files[q.nextFile])
                   THEN Thrown(r, "Failed to parse PDF document")
                   ELSE [reqs EXCEPT ![r].pc = "copy"]
      /\ UNCHANGED <<variant, diskDirs, diskFiles, pairIdle>>

\* The rest of the turn: copyPages, then every copied page is added.
ReqCopyPages(r) ==
  LET q == reqs[r]
  IN  /\ q.pc = "copy"
      /\ reqs' = [reqs EXCEPT
           ![r].mergedPdf = CopyAllPages(q.mergedPdf, LoadDocument(q.files[q.nextFile])),
           ![r].nextFile = q.nextFile + 1,
           ![r].pc = IF q.nextFile = Len(q.files) THEN "save" ELSE "merge"]
      /\ UNCHANGED <<variant, diskDirs, diskFiles, pairIdle>>

\* The save after the merge loop: in route.ts the save of the branch the
\* level selects, in part_001 the default save and the early return.
ReqSave(r) ==
  LET q == reqs[r]
      lvl == ParseLevel(q.levelField)
      bytes == IF variant = "inproc" THEN InProcessBytes(q.mergedPdf, lvl)
               ELSE SaveBytes(q.mergedPdf, NoOptions)
  IN  /\ q.pc = "save"
      /\ reqs' =
           IF variant = "inproc" /\ TakesHighBranch(lvl)
             THEN [reqs EXCEPT
                    ![r].mergedBytes = SaveBytes(q.mergedPdf, HighSaveOptions),
                    ![r].mergedPdf = DocumentAfterSave(q.mergedPdf, HighSaveOptions),
                    ![r].pc = "reload"]
           ELSE IF variant = "inproc"
             THEN [reqs EXCEPT
                    ![r].mergedBytes = bytes,
                    ![r].mergedPdf = InProcessMerged(q.mergedPdf, lvl),
                    ![r].response = PdfResponse(bytes, InProcessHeaders(bytes, lvl)),
                    ![r].pc = "done"]
           ELSE IF ReturnsUncompressed(lvl)
             THEN [reqs EXCEPT
                    ![r].mergedBytes = bytes,
                    ![r].mergedPdf = DocumentAfterSave(q.mergedPdf, NoOptions),
                    ![r].response = PdfResponse(bytes, PlainHeaders(bytes)),
                    ![r].pc = AfterResponse(q.tempDir)]
           ELSE [reqs EXCEPT
                    ![r].mergedBytes = bytes,
                    ![r].mergedPdf = DocumentAfterSave(q.mergedPdf, NoOptions),
                    ![r].pc = "mkdtemp"]
      /\ UNCHANGED <<variant, diskDirs, diskFiles, pairIdle>>

\* High branch of route.ts: the reload and the six setters.
ReqReloadOptimized(r) ==
  /\ reqs[r].pc = "reload"
  /\ reqs' = [reqs EXCEPT ![r].pc = "resave"]
  /\ UNCHANGED <<variant, diskDirs, diskFiles, pairIdle>>

\* High branch of route.ts: optimizedPdf.save and the response.
ReqSaveOptimized(r) ==
  LET q == reqs[r]
      bytes == SaveBytes(OptimizedDocument(q.mergedPdf), OptimizedSaveOptions)
  IN  /\ q.pc = "resave"
      /\ reqs' = [reqs EXCEPT
           ![r].mergedBytes = bytes,
           ![r].response =
              PdfResponse(bytes, InProcessHeaders(bytes, ParseLevel(q.levelField))),
           ![r].pc = "done"]
      /\ UNCHANGED <<variant, diskDirs, diskFiles, pairIdle>>

ReqMakeTempDir(r) ==
  /\ reqs[r].pc = "mkdtemp"
  /\ \E ok \in BOOLEAN : \E d \in FreshDirNames(SharedDirNames, diskDirs) :
       IF ok
         THEN /\ reqs' = [reqs EXCEPT ![r].tempDir = d, ![r].pc = "write",
                                      ![r].outcomes.mkdtemp = TRUE]
              /\ diskDirs' = diskDirs \cup {d}
         ELSE /\ reqs' = [Thrown(r, "mkdtemp failed") EXCEPT ![r].outcomes.mkdtemp = FALSE]
              /\ UNCHANGED diskDirs
  /\ UNCHANGED <<variant, diskFiles, pairIdle>>

ReqWriteInput(r) ==
  /\ reqs[r].pc = "write"
  /\ \E ok \in BOOLEAN :
       IF ok
         THEN /\ diskFiles' = WriteFile(diskFiles, reqs[r].tempDir, "input.pdf",
                                        reqs[r].mergedBytes)
              /\ reqs' = [reqs EXCEPT ![r].pc = "probe", ![r].outcomes.writeFile = TRUE]
         ELSE /\ reqs' = [Thrown(r, "writeFile failed") EXCEPT ![r].outcomes.writeFile = FALSE]
              /\ diskFiles' \in FailedWriteLeaves(diskFiles, reqs[r].tempDir, "input.pdf",
                                                   reqs[r].mergedBytes)
  /\ UNCHANGED <<variant, diskDirs, pairIdle>>

ReqProbe(r) ==
  /\ reqs[r].pc = "probe"
  /\ \E gsAvailable \in BOOLEAN :
       reqs' = [reqs EXCEPT
         ![r].pc = IF UseFallback(gsAvailable) THEN "fallback" ELSE "exec",
         ![r].outcomes.gsAvailable = gsAvailable]
  /\ UNCHANGED <<variant, diskDirs, diskFiles, pairIdle>>

ReqFallbackSave(r) ==
  LET q == reqs[r]
      opts == FallbackSaveOptions(ParseLevel(q.levelField))
      bytes == SaveBytes(q.mergedPdf, opts)
  IN  /\ q.pc = "fallback"
      /\ reqs' = [reqs EXCEPT
           ![r].mergedPdf = DocumentAfterSave(q.mergedPdf, opts),
           ![r].response = PdfResponse(bytes, FallbackHeaders(bytes)),
           ![r].pc = AfterResponse(q.tempDir)]
      /\ UNCHANGED <<variant, diskDirs, diskFiles, pairIdle>>

\* Ghostscript on the request's own paths. Without its input file it fails.
ReqRunGhostscript(r) ==
  LET q == reqs[r]
      cmd == GsCommand(ParseLevel(q.levelField))
  IN  /\ q.pc = "exec"
      /\ IF cmd = ""
           THEN /\ reqs' = Thrown(r, "exec: empty command")
                /\ UNCHANGED diskFiles
         ELSE IF ~FileExists(diskFiles, q.tempDir, "input.pdf")
           THEN /\ reqs' = Thrown(r, "Command failed")
                /\ UNCHANGED diskFiles
         ELSE \E exitCode \in GsExitCodes : \E wrote \in BOOLEAN :
                LET input == FileData(diskFiles, q.tempDir, "input.pdf")
                    data == IF exitCode = 0 THEN GsOutput(input, cmd)
                            ELSE GsPartialOutput(input, cmd)
                    seen == [q.outcomes EXCEPT !.exitCode = exitCode, !.wrote = wrote]
                IN  /\ diskFiles' =
                         IF wrote
                           THEN WriteFile(diskFiles, q.tempDir, "output.pdf", data)
                           ELSE diskFiles
                    /\ reqs' =
                         IF ExecRejects(exitCode)
                           THEN [Thrown(r, "Command failed") EXCEPT ![r].outcomes = seen]
                           ELSE [reqs EXCEPT ![r].pc = "read", ![r].outcomes = seen]
      /\ UNCHANGED <<variant, diskDirs, pairIdle>>

ReqReadOutput(r) ==
  LET q == reqs[r]
  IN  /\ q.pc = "read"
      /\ reqs' =
           IF FileExists(diskFiles, q.tempDir, "output.pdf")
             THEN LET bytes == FileData(diskFiles, q.tempDir, "output.pdf")
                  IN  [reqs EXCEPT
                        ![r].response =
                           PdfResponse(bytes, GsHeaders(bytes, ParseLevel(q.levelField))),
                        ![r].pc = AfterResponse(q.tempDir)]
             ELSE Thrown(r, "ENOENT: no such file")
      /\ UNCHANGED <<variant, diskDirs, diskFiles, pairIdle>>

ReqChildHangs(r) ==
  /\ \/ reqs[r].pc = "probe"
     \/ reqs[r].pc = "exec" /\ GsCommand(ParseLevel(reqs[r].levelField)) # ""
  /\ reqs' = IF CutsOffHungChild THEN Thrown(r, "Command timed out")
             ELSE [reqs EXCEPT ![r].pc = "hung"]
  /\ UNCHANGED <<variant, diskDirs, diskFiles, pairIdle>>

ReqCleanup(r) ==
  LET q == reqs[r]
  IN  /\ q.pc = "finally"
      /\ \E ok \in BOOLEAN :
           /\ IF ok
                THEN /\ diskDirs' = diskDirs \ {q.tempDir}
                     /\ diskFiles' = {f \in diskFiles : f.dir # q.tempDir}
                ELSE /\ diskFiles' \in FailedRmLeaves(diskFiles, q.tempDir)
                     /\ UNCHANGED diskDirs
           /\ reqs' = [reqs EXCEPT
                ![r].response = ResponseAfterCleanup(q.response, ok),
                ![r].pc = "done"]
      /\ UNCHANGED <<variant, pairIdle>>

PairNext ==
  \E r \in ReqIds :
    \/ ReqValidate(r)
    \/ ReqCreateMerged(r)
    \/ ReqLoadFile(r)
    \/ ReqCopyPages(r)
    \/ ReqSave(r)
    \/ ReqReloadOptimized(r)
    \/ ReqSaveOptimized(r)
    \/ ReqMakeTempDir(r)
    \/ ReqWriteInput(r)
    \/ ReqProbe(r)
    \/ ReqFallbackSave(r)
    \/ ReqRunGhostscript(r)
    \/ ReqReadOutput(r)
    \/ ReqChildHangs(r)
    \/ ReqCleanup(r)

\* The response of the handler to a request that nothing else disturbs, given
\* what the file system and the child processes answered to it.
SoloResponse(v, fs, field, o) ==
  LET lvl == ParseLevel(field)
      doc == MergeInto(CreateDocument, fs)
      bytes == SaveBytes(doc, NoOptions)
      saved == DocumentAfterSave(doc, NoOptions)
      cmd == GsCommand(lvl)
  IN  IF NoFiles(fs)
        THEN JsonResponse("No PDF files uploaded.", "", ValidationStatus)
      ELSE IF InvalidLevel(lvl)
        THEN JsonResponse("Invalid compression level.", "", ValidationStatus)
      ELSE IF AnyLoadThrows(fs)
        THEN CatchResponse(v, "Failed to parse PDF document")
      ELSE IF v = "inproc"
        THEN PdfResponse(InProcessBytes(doc, lvl),
                         InProcessHeaders(InProcessBytes(doc, lvl), lvl))
      ELSE IF ReturnsUncompressed(lvl)
        THEN PdfResponse(bytes, PlainHeaders(bytes))
      ELSE IF ~o.mkdtemp
        THEN CatchResponse(v, "mkdtemp failed")
      ELSE IF ~o.writeFile
        THEN CatchResponse(v, "writeFile failed")
      ELSE IF UseFallback(o.gsAvailable)
        THEN PdfResponse(SaveBytes(saved, FallbackSaveOptions(lvl)),
                         FallbackHeaders(SaveBytes(saved, FallbackSaveOptions(lvl))))
      ELSE IF cmd = ""
        THEN CatchResponse(v, "exec: empty command")
      ELSE IF ExecRejects(o.exitCode)
        THEN CatchResponse(v, "Command failed")
      ELSE IF ~o.wrote
        THEN CatchResponse(v, "ENOENT: no such file")
      ELSE PdfResponse(GsOutput(bytes, cmd), GsHeaders(GsOutput(bytes, cmd), lvl))

SpecPair == PairInit /\ [][PairNext]_<<vars, reqs>>

\* ------------------------------------------- the page (Home component)
\* pageFiles is the files state, pageLevel the compressionLevel state.
\* mergedUrl stands for the object URL: what matters of it is the request
\* whose response body it points to. inFlight holds the fetches that calls
\* awaits, with the files and the level its closure captured.

\* Most files in the list.
MaxPageFiles == 2
PageFileNames == {"a.pdf", "b.txt"}
IsPdfType(f) == f = "a.pdf"
PageLevels == MinLevel..MaxLevel
Indices(fs) == 0..(Len(fs) - 1)

\* What the user picks or drops at once: distinct files, in some order.
Selections(room) ==
  {sel \in UNION {[1..k -> PageFileNames] : k \in 1..room} :
     \A i, j \in DOMAIN sel : i # j => sel[i] # sel[j]}

\* files.filter(file => file.type === 'application/pdf')
RECURSIVE PdfFilesOf(_)
PdfFilesOf(fs) ==
  IF Len(fs) = 0 THEN <<>>
  ELSE (IF IsPdfType(Head(fs)) THEN <<Head(fs)>> ELSE <<>>) \o PdfFilesOf(Tail(fs))

\* prev.filter((_, i) => i !== index), index counted from 0
WithoutIndex(fs, index) ==
  [i \in 1..(Len(fs) - 1) |-> IF i <= index THEN fs[i] ELSE fs[i + 1]]

\* [a[i], a[j]] = [a[j], a[i]], indices counted from 0
Swapped(fs, i, j) == [fs EXCEPT ![i + 1] = fs[j + 1], ![j + 1] = fs[i + 1]]

\* What an array yields where it has no element.
Undefined == "undefined"

\* The start index splice works with: NaN counts as 0, a negative number
\* counts from the end, and the result is kept within the array.
SpliceStart(n, len) ==
  LET i == IF n.nan THEN 0 ELSE n.val
  IN  IF i < 0 THEN (IF len + i < 0 THEN 0 ELSE len + i)
      ELSE IF i > len THEN len ELSE i

\* const [draggedFile] = newFiles.splice(dragIndex, 1), then
\* newFiles.splice(dropIndex, 0, draggedFile): where nothing is removed,
\* draggedFile is undefined and is inserted all the same.
Respliced(fs, dragIndex, dropIndex) ==
  LET start == SpliceStart(dragIndex, Len(fs))
      removes == start < Len(fs)
      draggedFile == IF removes THEN fs[start + 1] ELSE Undefined
      rest == IF removes THEN WithoutIndex(fs, start) ELSE fs
      at == SpliceStart(Num(dropIndex), Len(rest))
  IN  SubSeq(rest, 1, at) \o <<draggedFile>> \o SubSeq(rest, at + 1, Len(rest))

\* e.dataTransfer.getData('text/plain') of what is dropped on a list item:
\* the index handleDragStart stored for a dragged item; the empty string
\* for something that carries no text (a file from the desktop); or any
\* other text, of which an index past the end and -1 are taken here.
DragData(fs) ==
  {NatToString(i) : i \in Indices(fs)}
    \cup {<<>>, NatToString(Len(fs)), NumberToString(Num(-1))}

\* The list holds an undefined entry: the next render throws on reading
\* its name and size, and React unmounts the page.
Crashed == \E i \in 1..Len(pageFiles) : pageFiles[i] = Undefined
Rendered == ~Crashed

serverIdle == <<vars, reqs>>

HomeInit ==
  /\ PageInit
  /\ variant = "gs"
  /\ reqs = NoRequests
  /\ diskDirs = {}
  /\ diskFiles = {}
  /\ files = <<>>
  /\ levelField = AbsentField
  /\ pc = "start"
  /\ mergedPdf = NoDocument
  /\ nextFile = 1
  /\ mergedBytes = <<>>
  /\ tempDir = NoDir
  /\ response = NoResponse
  /\ calls = <<>>

\* handleDrop: the PDFs among the dropped files are appended; when there is
\* none the user is alerted and nothing changes.
HandleDrop ==
  /\ Rendered
  /\ Len(pageFiles) < MaxPageFiles
  /\ \E dropped \in Selections(MaxPageFiles - Len(pageFiles)) :
       LET droppedFiles == PdfFilesOf(dropped)
       IN  pageFiles' = IF Len(droppedFiles) > 0 THEN pageFiles \o droppedFiles
                        ELSE pageFiles
  /\ UNCHANGED <<mergedUrl, isMerging, pageLevel, inFlight, serverIdle>>

\* handleFileChange: whatever was picked is appended.
HandleFileChange ==
  /\ Rendered
  /\ Len(pageFiles) < MaxPageFiles
  /\ \E newFiles \in Selections(MaxPageFiles - Len(pageFiles)) :
       pageFiles' = pageFiles \o newFiles
  /\ UNCHANGED <<mergedUrl, isMerging, pageLevel, inFlight, serverIdle>>

\* removeFile(index): the link is dropped only with the last file.
RemoveFile ==
  /\ Rendered
  /\ \E index \in Indices(pageFiles) :
       pageFiles' = WithoutIndex(pageFiles, index)
  /\ mergedUrl' = IF Len(pageFiles) = 1 THEN NoUrl ELSE mergedUrl
  /\ UNCHANGED <<isMerging, pageLevel, inFlight, serverIdle>>

MoveFileUp ==
  /\ Rendered
  /\ \E index \in Indices(pageFiles) :
       /\ ~(index <= 0 \/ index >= Len(pageFiles))
       /\ pageFiles' = Swapped(pageFiles, index, index - 1)
  /\ mergedUrl' = NoUrl
  /\ UNCHANGED <<isMerging, pageLevel, inFlight, serverIdle>>

MoveFileDown ==
  /\ Rendered
  /\ \E index \in Indices(pageFiles) :
       /\ ~(index < 0 \/ index >= Len(pageFiles) - 1)
       /\ pageFiles' = Swapped(pageFiles, index, index + 1)
  /\ mergedUrl' = NoUrl
  /\ UNCHANGED <<isMerging, pageLevel, inFlight, serverIdle>>

\* handleDropItem: something is dropped on the list item at dropIndex.
HandleDropItem ==
  /\ Rendered
  /\ \E dropIndex \in Indices(pageFiles) : \E text \in DragData(pageFiles) :
       LET dragIndex == ParseInt(text)
       IN  IF JsStrictEq(dragIndex, dropIndex)
             THEN UNCHANGED <<pageFiles, mergedUrl>>
             ELSE /\ pageFiles' = Respliced(pageFiles, dragIndex, dropIndex)
                  /\ mergedUrl' = NoUrl
  /\ UNCHANGED <<isMerging, pageLevel, inFlight, serverIdle>>

\* The clear button is rendered while the list is not empty.
ClearAllFiles ==
  /\ Rendered
  /\ Len(pageFiles) > 0
  /\ pageFiles' = <<>>
  /\ mergedUrl' = NoUrl
  /\ UNCHANGED <<isMerging, pageLevel, inFlight, serverIdle>>

\* onClick={() => setCompressionLevel(n)}; the three buttons are rendered
\* while the list is not empty.
SetCompressionLevel ==
  /\ Rendered
  /\ Len(pageFiles) > 0
  /\ \E n \in PageLevels : pageLevel' = n
  /\ UNCHANGED <<pageFiles, mergedUrl, isMerging, inFlight, serverIdle>>

\* A merge button that is always enabled.
MergeNeverDisabled == FALSE

\* The merge button is disabled while the list is empty or a merge runs.
MergeDisabled == Len(pageFiles) = 0 \/ isMerging

\* The request a call of handleMerge sends.
Fetch(fs, lvl) == [files |-> fs, level |-> lvl]

\* A sequence without its i-th element.
Settled(fetches, i) == SubSeq(fetches, 1, i - 1) \o SubSeq(fetches, i + 1, Len(fetches))

\* handleMerge up to its await: the form is built from the files and the
\* level of the render the click happened in.
HandleMerge ==
  /\ Rendered
  /\ ~MergeDisabled
  /\ Len(pageFiles) # 0
  /\ isMerging' = TRUE
  /\ inFlight' = Append(inFlight, Fetch(pageFiles, pageLevel))
  /\ UNCHANGED <<pageFiles, mergedUrl, pageLevel, serverIdle>>

FetchOutcomes == {"ok", "not ok", "rejected"}

\* handleMerge after its await: the object URL of the response body on
\* success, an alert otherwise; isMerging is cleared in finally. The
\* continuation runs whether or not the page is still rendered.
MergeSettles ==
  \E i \in 1..Len(inFlight) : \E outcome \in FetchOutcomes :
    /\ mergedUrl' = IF outcome = "ok"
                      THEN [files |-> inFlight[i].files, level |-> inFlight[i].level,
                            set |-> TRUE]
                    ELSE mergedUrl
    /\ isMerging' = FALSE
    /\ inFlight' = Settled(inFlight, i)
    /\ UNCHANGED <<pageFiles, pageLevel, serverIdle>>

HomeNext ==
  \/ HandleDrop
  \/ HandleFileChange
  \/ RemoveFile
  \/ MoveFileUp
  \/ MoveFileDown
  \/ HandleDropItem
  \/ ClearAllFiles
  \/ SetCompressionLevel
  \/ HandleMerge
  \/ MergeSettles

SpecHome == HomeInit /\ [][HomeNext]_<<vars, reqs, pageVars>>



\* ------------------------------------------------------------- observers
Finished == pc = "done"
Succeeded == response.kind = "pdf"
Failed == response.kind = "json"

\* The request passed both validations.
PassedValidation == ~NoFiles(files) /\ ~InvalidLevel(compressionLevel)

AllParse == \A i \in 1..Len(files) : Parses(files[i])

\* Positions in the call log.
CallsOf(op) == {i \in 1..Len(calls) : calls[i].op = op}
\* Runs of the external compressor: exec calls with a command line.
GsInvocations == {i \in CallsOf("exec") : calls[i].arg # ""}
ProbeSaid(answer) == \E i \in CallsOf("probe") : calls[i].ok = answer

\* The compressor exited nonzero, or the output file was not there to read.
GsExitedNonzero == \E i \in GsInvocations : ~calls[i].ok
GsLeftNoOutput ==
  /\ \E i \in GsInvocations : calls[i].ok
  /\ \E j \in CallsOf("readFile") : ~calls[j].ok

LevelIs(n) == JsStrictEq(compressionLevel, n)

\* The level field is as the interface allows: absent, "0", "1" or "2".
AllowedLevelField ==
  ~levelField.present \/ levelField.text \in {<<"0">>, <<"1">>, <<"2">>}

\* The pages of the uploads that parse, concatenated in upload order.
RECURSIVE ConcatPages(_)
ConcatPages(fs) ==
  IF Len(fs) = 0 THEN <<>> ELSE PagesOf(Head(fs)) \o ConcatPages(Tail(fs))

\* ----------------------------------------------------------------- claims

\* C1: a successful response to a request the interface allows holds exactly
\* the pages of the inputs, in upload order and in each document's own order;
\* nothing is added, dropped or reordered. (Fails: save() with addDefaultPage
\* left at its default adds a blank page when the inputs hold no page at all.)
C1_OutputIsConcatenation ==
  (Finished /\ Succeeded /\ AllowedLevelField) =>
    PagesOf(response.body) = ConcatPages(files)

\* C2: with compressionLevel 0 neither the probe nor the compressor is ever
\* called, and a success response's body is the default serialization of the
\* merged document, written by the one save() the request made.
C2_LevelZeroVerbatim ==
  LevelIs(0) =>
    /\ CallsOf("probe") = {}
    /\ CallsOf("exec") = {}
    /\ Succeeded =>
         /\ response.body = SaveBytes(mergedPdf, NoOptions)
         /\ Cardinality(CallsOf("save")) = 1
         /\ \A i \in CallsOf("save") : calls[i].arg = NoOptions

C2_Witness ==
  /\ Finished /\ Succeeded /\ LevelIs(0)
  /\ variant = "gs"
  /\ Len(files) = 2 /\ Len(response.body) = 4

\* C3: once the compressor was run (level 1 or 2, probe said available), a
\* nonzero exit or a missing output file ends the request with the error
\* response of status 500; the compressor ran exactly once and no pdf-lib
\* save follows the failed run.
C3_CompressorFailureIsTerminal ==
  /\ Cardinality(GsInvocations) <= 1
  /\ GsInvocations # {} => (LevelIs(1) \/ LevelIs(2)) /\ ProbeSaid(TRUE)
  /\ (GsExitedNonzero \/ GsLeftNoOutput) =>
       /\ Failed
       /\ response.status = InternalErrorStatus
       /\ response.error = CatchMessage(variant)
       /\ \A i \in GsInvocations : \A j \in CallsOf("save") : j < i

\* The compressor exited nonzero and left a truncated output file behind.
C3_Witness ==
  /\ Finished /\ Failed /\ LevelIs(2)
  /\ ProbeSaid(TRUE)
  /\ GsExitedNonzero
  /\ response.details = "Command failed"

\* C4: level 1 or 2, every input parses, and the probe said unavailable: the
\* compressor is never run, the next step is the fallback save, and from
\* then on the response is the success response whose body is pdf-lib's
\* object-stream rewrite of the merged document.
C4_UnavailableFallsBack ==
  ((LevelIs(1) \/ LevelIs(2)) /\ ProbeSaid(FALSE)) =>
    /\ AllParse
    /\ GsInvocations = {}
    /\ pc = "fallback" => (response = NoResponse /\ calls[Len(calls)].op = "probe")
    /\ pc # "fallback" =>
         /\ Succeeded /\ ~Failed
         /\ response.status = OkStatus
         /\ response.body = Serialize(mergedPdf, TRUE)
         /\ calls[Len(calls)].op \in {"save", "rm"}

C4_Witness ==
  /\ Finished /\ Succeeded /\ LevelIs(2)
  /\ ProbeSaid(FALSE)
  /\ files = <<PdfB>>
  /\ PagesOf(response.body) = <<"B1">>

\* The field holds a text other than "0", "1" and "2".
BadLevelField ==
  /\ levelField.present
  /\ Len(levelField.text) > 0
  /\ levelField.text \notin {<<"0">>, <<"1">>, <<"2">>}

\* C5: a compressionLevel field other than "0", "1", "2" is rejected with
\* status 400 and no document is created, loaded, saved or compressed.
\* (Fails: parseInt gives NaN for a text without leading digits and both
\* range comparisons are false on NaN; it also reads "2x" as 2.)
C5_BadLevelRejected ==
  (BadLevelField /\ pc # "start") =>
    /\ Finished
    /\ Failed /\ response.status = ValidationStatus
    /\ calls = <<>>

\* C6: a request without files is rejected with status 400 whatever the level
\* field holds, before any document, temp directory, probe or compressor.
C6_NoFilesRejected ==
  (Len(files) = 0 /\ pc # "start") =>
    /\ Finished
    /\ Failed /\ response.status = ValidationStatus
    /\ response.error = "No PDF files uploaded."
    /\ calls = <<>> /\ mergedPdf = NoDocument
    /\ tempDir = NoDir /\ diskDirs = {} /\ diskFiles = {}

\* No files and a level field that is not a number.
C6_Witness ==
  /\ Finished /\ Len(files) = 0
  /\ levelField = TextField(<<"x">>)
  /\ response.status = ValidationStatus

\* C7 as stated: an input that does not parse gives status 400, a compressor
\* failure gives status 500 (for a level field the interface allows).
C7_UnparseableIs400 ==
  /\ (Finished /\ PassedValidation /\ AllowedLevelField /\ ~AllParse) =>
       (Failed /\ response.status = ValidationStatus)
  /\ (Finished /\ (GsExitedNonzero \/ GsLeftNoOutput)) =>
       (Failed /\ response.status = InternalErrorStatus)

\* C7 amended: an input that does not parse is answered by the catch block,
\* with status 500 and the catch block's message, as a compressor failure is.
C7_UnparseableIs500 ==
  /\ (Finished /\ PassedValidation /\ ~AllParse) =>
       /\ Failed /\ response.status = InternalErrorStatus
       /\ response.error = CatchMessage(variant)
       /\ response.details = "Failed to parse PDF document"
  /\ (Finished /\ (GsExitedNonzero \/ GsLeftNoOutput)) =>
       (Failed /\ response.status = InternalErrorStatus)

C7_Witness ==
  /\ Finished /\ PassedValidation
  /\ files = <<PdfA, NotAPdf>>
  /\ response.status = InternalErrorStatus

\* C8: an input that does not parse, at any position, aborts the request:
\* the response is an error object without a PDF body, whatever was already
\* copied into the accumulator; every response is a success artifact or an
\* error object, never both.
C8_NoPartialOutput ==
  /\ Finished => (Succeeded \/ Failed)
  /\ Succeeded =>
       /\ AllParse
       /\ response.status = OkStatus /\ response.error = ""
       /\ Parses(response.body)
  /\ Failed =>
       /\ response.body = <<>>
       /\ response.status \in {ValidationStatus, InternalErrorStatus}
       /\ response.error # ""
  /\ (PassedValidation /\ ~AllParse /\ pc \notin {"start", "create", "merge", "copy"}) => Failed

\* The second file does not parse after the first one's pages were copied.
C8_Witness ==
  /\ Finished /\ Failed
  /\ nextFile = 2 /\ ~Parses(files[2])
  /\ Len(mergedPdf.pages) = 2
  /\ response.body = <<>>

RmCalls == CallsOf("rm")

\* C9 as stated: when the request has finished, no temp directory it created
\* is on disk (for a level field the interface allows).
C9_NoTempDirRemains ==
  (Finished /\ AllowedLevelField) => (diskDirs = {} /\ diskFiles = {})

\* C9 amended: when the request has finished, on every exit path, the removal
\* of the temp directory it created was attempted exactly once, and the
\* directory is gone unless that removal failed.
C9_TempDirRemovedUnlessRmFails ==
  Finished =>
    /\ tempDir # NoDir => Cardinality(RmCalls) = 1
    /\ tempDir = NoDir => (RmCalls = {} /\ diskDirs = {})
    /\ (\A i \in RmCalls : calls[i].ok) => (diskDirs = {} /\ diskFiles = {})
    /\ diskDirs \subseteq {tempDir}

\* A compressor failure after which the directory was removed.
C9_Witness ==
  /\ Finished /\ Failed
  /\ tempDir # NoDir
  /\ GsExitedNonzero
  /\ \E i \in RmCalls : calls[i].ok
  /\ diskDirs = {}

\* The body was written by the external compressor.
BodyFromCompressor ==
  Succeeded /\ response.body[1].producer \in {"/ebook", "/screen"}

\* C10: every success response (to a request the interface allows) names
\* the method that produced the body and the numeric level. (Fails: only the
\* Ghostscript response of part_001 carries X-Compression-Method; its
\* fallback and level-0 responses carry neither header, and route.ts never
\* names a method.)
C10_MethodAndLevelReported ==
  (Succeeded /\ AllowedLevelField) =>
    /\ "X-Compression-Level" \in DOMAIN response.headers
    /\ "X-Compression-Method" \in DOMAIN response.headers
    /\ (response.headers["X-Compression-Method"] = "ghostscript") <=> BodyFromCompressor

\* C11: on every success path the Content-Length header, read back as a
\* number, is the length of the buffer returned as the body.
C11_ContentLengthIsBodyLength ==
  Succeeded =>
    /\ "Content-Length" \in DOMAIN response.headers
    /\ ParseInt(response.headers["Content-Length"]) = Num(Len(response.body))

\* A three-page body written by the external compressor.
C11_Witness ==
  /\ Finished /\ Succeeded
  /\ GsInvocations # {}
  /\ response.headers["Content-Length"] = <<"4">>
  /\ Len(response.body) = 4

\* A save with options of its own, or a run of the compressor, made the body.
RewriteProducedBody ==
  \/ \E i \in CallsOf("save") : calls[i].arg # NoOptions
  \/ GsInvocations # {}

\* C12: the suggested filename follows the level: merged.pdf exactly when the
\* body is the uncompressed merge result (level 0), merged_compressed.pdf
\* exactly when a Medium or High rewrite produced the body. (Fails through
\* the defect of C5: for a level that parsed to NaN route.ts runs its High
\* branch and, NaN > 0 being false, names the file merged.pdf.)
C12_FilenameFollowsLevel ==
  Succeeded =>
    /\ response.headers["Content-Disposition"] \in {PlainDisposition, CompressedDisposition}
    /\ (response.headers["Content-Disposition"] = PlainDisposition) <=> LevelIs(0)
    /\ (response.headers["Content-Disposition"] = CompressedDisposition)
         <=> RewriteProducedBody

\* C13: the removal of the temp directory never changes the response: the
\* step that runs fs.rm, failing or not, leaves the response it found and
\* finishes the request.
C13_CleanupKeepsResponse ==
  [][pc = "finally" => (response' = response /\ pc' = "done")]_vars

\* A success response returned although the removal failed.
C13_Witness ==
  /\ Finished /\ Succeeded
  /\ \E i \in RmCalls : ~calls[i].ok
  /\ diskDirs # {}

\* Children started, whether or not they ever exited.
ProbesStarted == CallsOf("probe") \cup CallsOf("probe-hang")
GsStarted == GsInvocations \cup CallsOf("exec-hang")

\* C17: the compressor is started only after the probe of the same request
\* said available; the probe is started at most once, and only for level 1
\* or 2 after the merge succeeded. (Fails through the defect of C5: a level
\* that parsed to NaN passes the validation and is probed.)
C17_ProbeBeforeCompressor ==
  /\ \A i \in GsStarted : \E j \in CallsOf("probe") : j < i /\ calls[j].ok
  /\ Cardinality(ProbesStarted) <= 1
  /\ ProbesStarted # {} =>
       /\ LevelIs(1) \/ LevelIs(2)
       /\ AllParse
       /\ \A j \in ProbesStarted : \E k \in CallsOf("save") : k < j

\* C18: a request always ends: it has finished or can take a step, also
\* when a child process never exits. (Fails: execAsync has no timeout, the
\* handler stays at the await and its temp directory stays on disk.)
C18_RequestEnds ==
  AllowedLevelField => (Finished \/ ENABLED Next)

\* A library call as a step of a rewrite: what is done, and for a save the
\* object-stream switch and the batch size in effect.
RewriteStep(call) ==
  IF call.op = "save"
    THEN [op |-> "save",
          useObjectStreams |-> SaveOption(call.arg, "useObjectStreams"),
          objectsPerTick |-> SaveOption(call.arg, "objectsPerTick")]
    ELSE [op |-> call.op, useObjectStreams |-> FALSE, objectsPerTick |-> 0]
RewriteSteps(cs) == [i \in 1..Len(cs) |-> RewriteStep(cs[i])]

\* The steps the fallback ran: the calls after the probe that said no, up
\* to the removal of the temp directory.
FallbackSteps ==
  LET p == CHOOSE i \in CallsOf("probe") : TRUE
  IN  RewriteSteps(SelectSeq(SubSeq(calls, p + 1, Len(calls)), LAMBDA c : c.op # "rm"))

\* The steps route.ts runs for the same level.
InProcessSteps == RewriteSteps(InProcessCalls(compressionLevel))

\* The probe said no and the fallback has run.
FallbackTaken == (LevelIs(1) \/ LevelIs(2)) /\ ProbeSaid(FALSE) /\ pc # "fallback"

\* C16 as stated: the fallback runs the same steps, with the same batch
\* sizes, as the in-process path of route.ts runs for the level.
C16_FallbackSameAsInProcess ==
  (FallbackTaken /\ AllowedLevelField) => FallbackSteps = InProcessSteps

\* C16 amended: the fallback is one object-stream save whose batch size is
\* that of the first save of route.ts for the level (50 for level 1, 20 for
\* level 2). For level 1 that is all route.ts does; for level 2 route.ts goes
\* on to reload, set the metadata and save again with batch size 10, and the
\* fallback does not.
C16_FallbackIsFirstInProcessSave ==
  FallbackTaken =>
    /\ FallbackSteps = <<InProcessSteps[1]>>
    /\ FallbackSteps[1].op = "save" /\ FallbackSteps[1].useObjectStreams
    /\ LevelIs(1) =>
         /\ FallbackSteps = InProcessSteps
         /\ FallbackSteps[1].objectsPerTick = MediumObjectsPerTick
    /\ LevelIs(2) =>
         /\ FallbackSteps[1].objectsPerTick = HighObjectsPerTick
         /\ [i \in 1..3 |-> InProcessSteps[i + 1].op] = <<"load", "setMetadata", "save">>
         /\ InProcessSteps[4].objectsPerTick = OptimizedObjectsPerTick

C16_Witness ==
  /\ Finished /\ Succeeded /\ FallbackTaken /\ LevelIs(2)
  /\ Len(FallbackSteps) = 1 /\ Len(InProcessSteps) = 4

\* The body was written by pdf-lib, and with the pipeline's metadata.
BodyFromPdfLib == Succeeded /\ response.body[1].producer = "pdf-lib"
MetadataReset == response.body[1].meta = PipelineMeta

\* C19 as stated: every level-2 success response written by pdf-lib, the
\* fallback included, has its metadata reset to the pipeline's values; no
\* level-1 or level-0 response has.
C19_HighResetsMetadata ==
  (BodyFromPdfLib /\ AllowedLevelField) =>
    /\ LevelIs(2) => MetadataReset
    /\ (LevelIs(0) \/ LevelIs(1)) => ~MetadataReset

\* C19 amended: the level-2 success responses of route.ts have their metadata
\* reset to the pipeline's values; the fallback responses of part_001 have
\* not, at any level, and no level-1 or level-0 response has.
C19_OnlyRouteHighResetsMetadata ==
  BodyFromPdfLib =>
    /\ (LevelIs(2) /\ variant = "inproc") =>
         /\ MetadataReset
         /\ response.body[1].meta.title = "Merged PDF"
    /\ variant = "gs" => ~MetadataReset
    /\ (LevelIs(0) \/ LevelIs(1)) => ~MetadataReset

C19_Witness ==
  /\ Finished /\ BodyFromPdfLib /\ LevelIs(2)
  /\ variant = "inproc"
  /\ MetadataReset
  /\ Len(files) = 2


\* ------------------------------------------------------------- C14
HoldsTempDir(r) == reqs[r].tempDir # NoDir /\ reqs[r].pc # "done"
ReadsInput(r) == reqs[r].pc \in {"probe", "exec"}
ReadsOutput(r) == reqs[r].pc = "read"
ServedByGhostscript(r) ==
  /\ reqs[r].response.status = OkStatus
  /\ "X-Compression-Method" \in DOMAIN reqs[r].response.headers

\* What the file system and the child processes answered to the one request
\* of the single-request specification, read off its call log.
AllOk(op) == \A i \in 1..Len(calls) : calls[i].op = op => calls[i].ok
SeenOutcomes ==
  [mkdtemp |-> AllOk("mkdtemp"), writeFile |-> AllOk("writeFile"),
   gsAvailable |-> AllOk("probe"), exitCode |-> IF AllOk("exec") THEN 0 ELSE 1,
   wrote |-> AllOk("readFile")]

\* Lemma (under Spec): SoloResponse is the response of a request served alone.
SoloResponseIsAloneResponse ==
  Finished => response = SoloResponse(variant, files, levelField, SeenOutcomes)

\* C14: of two requests served at the same time, in every interleaving, the
\* temp directories they hold are distinct; the input file a request wrote
\* is there with the request's own bytes for as long as the request may read
\* it, and so is the output file its compressor wrote; and the response of
\* each is the one it gets when served alone with the same answers from the
\* file system and the child processes.
C14_RequestsIndependent ==
  /\ \A r, t \in DOMAIN reqs :
       (r # t /\ HoldsTempDir(r) /\ HoldsTempDir(t)) => reqs[r].tempDir # reqs[t].tempDir
  /\ \A r \in DOMAIN reqs :
       /\ ReadsInput(r) =>
            /\ FileExists(diskFiles, reqs[r].tempDir, "input.pdf")
            /\ FileData(diskFiles, reqs[r].tempDir, "input.pdf") = reqs[r].mergedBytes
       /\ (ReadsOutput(r) /\ reqs[r].outcomes.wrote) =>
            /\ FileExists(diskFiles, reqs[r].tempDir, "output.pdf")
            /\ PagesOf(FileData(diskFiles, reqs[r].tempDir, "output.pdf"))
                 = PagesOf(reqs[r].mergedBytes)
       /\ reqs[r].pc = "done" =>
            reqs[r].response =
              SoloResponse(variant, reqs[r].files, reqs[r].levelField, reqs[r].outcomes)

\* One request has been answered by Ghostscript and has removed its
\* directory while the other is about to read its own output file.
C14_Witness ==
  /\ DOMAIN reqs = ReqIds
  /\ reqs[1].pc = "done"
  /\ ServedByGhostscript(1)
  /\ reqs[1].tempDir \notin diskDirs
  /\ reqs[2].pc = "read"
  /\ reqs[2].outcomes.wrote
  /\ reqs[2].files # reqs[1].files


\* ------------------------------------------------------------- C15
SameInput(r, t) ==
  /\ reqs[r].files = reqs[t].files
  /\ reqs[r].levelField = reqs[t].levelField
ProducedOutput(r) == reqs[r].pc = "done" /\ reqs[r].response.kind = "pdf"

\* C15: two runs of the pipeline on the same documents in the same order at
\* the same level, each of which produces an output, produce the same pages
\* in the same order, whatever path each run took (Ghostscript or the
\* pdf-lib fallback); the rest of the bytes may differ.
C15_SameInputSamePages ==
  \A r, t \in DOMAIN reqs :
    (SameInput(r, t) /\ ProducedOutput(r) /\ ProducedOutput(t)) =>
      PagesOf(reqs[r].response.body) = PagesOf(reqs[t].response.body)

\* Two runs on the same non-empty input whose outputs differ as bytes: one
\* was written by Ghostscript, the other by the fallback.
C15_Witness ==
  /\ DOMAIN reqs = ReqIds
  /\ SameInput(1, 2)
  /\ ProducedOutput(1)
  /\ ProducedOutput(2)
  /\ ServedByGhostscript(1)
  /\ ~ServedByGhostscript(2)
  /\ reqs[1].response.body # reqs[2].response.body
  /\ PagesOf(reqs[1].response.body) # <<>>


\* ------------------------------------------------------------- C20
LinkOffered == Rendered /\ mergedUrl.set

\* C20: whenever the page offers a download link, the merged document
\* behind it was built from exactly the files now in the list, in their
\* current order, at the current compression level. (Fails: adding files,
\* removing a file that is not the last one and changing the level keep the
\* link, and a response that arrives after the list or the level changed
\* sets a link for the request as it was sent.)
C20_LinkMatchesList ==
  LinkOffered => (mergedUrl.files = pageFiles /\ mergedUrl.level = pageLevel)


\* ------------------------------------------------------------- C21
MergeStarts == Len(inFlight') > Len(inFlight)
MergeEnds == Len(inFlight') < Len(inFlight)

\* C21: in the page at most one merge request is in flight; isMerging is
\* true exactly while one is; a request starts only when isMerging is false
\* and the list is not empty, and sets isMerging; a request that is in
\* flight can settle, and when it does, with an OK response, a non-OK one
\* or a rejection, isMerging is false again.
C21_OneMergeAtATime ==
  [][ /\ Len(inFlight) <= 1
      /\ Len(inFlight') <= 1
      /\ isMerging <=> Len(inFlight) = 1
      /\ isMerging' <=> Len(inFlight') = 1
      /\ MergeStarts => (~isMerging /\ Len(pageFiles) # 0 /\ isMerging')
      /\ MergeEnds => ~isMerging'
      /\ isMerging => ENABLED MergeSettles
    ]_<<vars, reqs, pageVars>>

\* A merge is in flight after an earlier one, for another list, succeeded.
C21_Witness ==
  /\ isMerging
  /\ Len(inFlight) = 1
  /\ mergedUrl.set
  /\ mergedUrl.files # inFlight[1].files

====
